---- MODULE Spec2Model ----
(***************************************************************************)
(* Model of js/scene.js: the scroll-progress choreography of the pinned    *)
(* .product-overview section, the 3D model load and the resize handling.   *)
(*                                                                         *)
(* Numbers.  Scroll progress p in [0,1] is the integer p * Scale.  A       *)
(* sub-progress of a window of length len is kept as its numerator over    *)
(* len, so num/len is the JavaScript value and no division is rounded.     *)
(* Angles are in units of pi/Scale radians, lengths of the 3D scene in     *)
(* units of 1/10000.  Arithmetic is exact: the 1e-14 relative error of     *)
(* IEEE doubles is not modelled.                                           *)
(***************************************************************************)
EXTENDS Integers, Sequences, FiniteSets, Bags, TLC

VARIABLES
    renderer,               \* "webgl2" | "webgl1" | "none": outcome of the try/catch
    containerContent,       \* "canvas" | "fallback": what .model-container holds
    consoleLog,             \* set of messages written by console.warn / console.error
    width,                  \* window.innerWidth
    resizes,                \* number of resize events handled so far
    scrollPos,              \* scroll offset from the top of .product-overview
    loadState,              \* "none" | "pending" | "loaded" | "failed" (GLTFLoader)
    loadStarts,             \* number of GLTFLoader.load calls made
    model,                  \* the `model` variable: present flag, position, rotation
    modelSize,              \* the `modelSize` variable (ZeroVec while it is the number 0)
    finalModelPosition,     \* the `finalModelPosition` variable
    camera,                 \* camera.position.z
    currentRotation,        \* the `currentRotation` variable
    currentScrollProgress,  \* the `currentScrollProgress` variable
    yTween,                 \* end value of the newest gsap.to(model.position) tween in flight
    rendered,               \* renderer.render has been called
    fault,                  \* a handler dereferenced the absent model
    targets,                \* values last handed to gsap.to by the main onUpdate
    locals,                 \* sub-progress constants last computed by the main onUpdate
    logo,                   \* colour channel last handed to gsap.to(".logo") and its sub-progress
    pinnedText,             \* "shown" | "hidden": target of .pinned-fixed-text
    clock,                  \* time since DOMContentLoaded, in ticks
    timers,                 \* deadlines of the pending setTimeout calls
    resizeTimeout,          \* the `resizeTimeout` variable: the timer it names
    tooltipTimelines,       \* the `tooltipTimelines` array: head and direction of each
    tooltipScrollTriggers,  \* number of live triggers in `tooltipScrollTriggers`
    rebuilds,               \* number of debounced rebuilds that have run
    lastResizeAt,           \* time of the newest resize event
    direct                  \* the direct-scrub variant of the tooltips (unnamed/part_001)

sceneVars == <<renderer, containerContent, consoleLog, width, resizes, scrollPos,
               loadState, loadStarts, model, modelSize, finalModelPosition, camera,
               currentRotation, currentScrollProgress, yTween, rendered, fault,
               targets, locals, logo, pinnedText>>

tipVars == <<clock, timers, resizeTimeout, tooltipTimelines, tooltipScrollTriggers,
             rebuilds, lastResizeAt>>

vars == <<sceneVars, tipVars, direct>>

---------------------------------------------------------------------------
(* Bounds of the model *)

\* scroll offsets are taken at every breakpoint of the code and up to Near units around it
Near == 1
\* resize events in one run
MaxResizes == 1
\* resize events in one run of the tooltip specification
MaxBurst == 2
\* ticks of the clock in one run
MaxTime == 10

---------------------------------------------------------------------------
(* Fixed point and helpers *)

Scale == 100 * 1000
Pct(n) == n * (Scale \div 100)
\* 1.8 viewport heights and the like: tenths
Tenths(n, k) == (n * k) \div 10

Abs(x) == IF x < 0 THEN 0 - x ELSE x
Max(a, b) == IF a > b THEN a ELSE b
\* Math.max(lo, Math.min(hi, x))
Clamp(x, lo, hi) == Max(lo, IF x < hi THEN x ELSE hi)
\* Math.round(n / d) for d > 0: floor(n/d + 1/2)
Round(n, d) == (2 * n + d) \div (2 * d)

\* marks a value that no statement has assigned yet
Unset == 0 - 2000 * Scale

ZeroVec == [x |-> 0, y |-> 0, z |-> 0]

---------------------------------------------------------------------------
(* Static configuration: modelConfig and the windows written in the handlers *)

ScaleFactor == 4
CameraDistanceMobile == 4
CameraDistanceDesktop == 3
\* horizontalOffset 0.4 and verticalOffset -0.05, as fractions
HorizontalOffsetNum == 4
HorizontalOffsetDen == 10
VerticalOffsetNum == 0 - 5
VerticalOffsetDen == 100
RotationMobile == 0
RotationDesktop == 0 - 15
MobileBreakpoint == 768

\* window.innerHeight in scroll units: the main trigger's 4 viewport heights are Scale
ViewportH == Scale \div 4
MainEnd == 4 * ViewportH
LogoEnd == 5 * ViewportH
PinnedTextEnd == Tenths(ViewportH, 18)
\* window.innerHeight * 1.8 of the tooltip state check
CheckEnd == Tenths(ViewportH, 18)

\* progress / 0.05 in the scroll handler, currentScrollProgress / 0.12 on resize
EntranceLen == Pct(5)
ResizeEntranceLen == Pct(12)
GradientAt == Pct(8)
ModelStart == Pct(6)
ModelLen == Pct(4)
ModelHold == Pct(15)
StickyAt == Pct(90)
HeaderStart == Pct(12)
HeaderLen == Pct(13)
HeaderStay == Pct(8)
HeaderGone == Pct(30)
MaskStart == Pct(20)
MaskEnd == Pct(28)
MaskLen == Pct(8)
Header2Start == Pct(18)
Header2End == Pct(35)
SlideLen == Pct(17)
ColorStart == Pct(18)
ColorEnd == Pct(24)
ColorLen == Pct(6)
\* targetRotation = Math.PI * 8 * progress, in units of pi/Scale
RotationFactor == 8
\* Math.PI as a fraction, used only to place the 0.001 rad threshold
PiNum == 355
PiDen == 113
\* Math.abs(rotationDiff) > 0.001: the largest whole number of pi/Scale units that is
\* not above 0.001 rad
RotationEpsilon == (Scale * PiDen) \div (1000 * PiNum)

---------------------------------------------------------------------------
(* The rules of the main ScrollTrigger's onUpdate, progress in 0..Scale *)

GradientOpacity(progress) == IF progress >= GradientAt THEN 0 ELSE 1

\* numerator of entranceProgress over EntranceLen
EntranceProgress(progress) == Clamp(progress, 0, EntranceLen)

\* faulty variant: the model starts one extent below, not 1.5
EntranceYOneExtent(finalY, sizeY, num, len) == finalY - ((len - num) * sizeY) \div len

\* finalY - (1 - num/len) * sizeY * 1.5
EntranceY(finalY, sizeY, num, len) ==
    finalY - ((len - num) * ((sizeY * 3) \div 2)) \div len

CurrentY(progress) ==
    EntranceY(finalModelPosition.y, modelSize.y, EntranceProgress(progress), EntranceLen)

\* numerator of modelProgress over ModelLen
ModelProgress(progress) == Clamp(progress - ModelStart, 0, ModelLen)

\* modelScale over 10 * ModelLen
ModelScale(progress) ==
    IF progress < ModelHold THEN 8 * ModelLen
    ELSE 8 * ModelLen + 2 * ModelProgress(progress)

ContainerBox(progress) == IF progress >= StickyAt THEN "sticky" ELSE "auto"

\* numerator of headerProgress over HeaderLen
HeaderProgress(progress) == Clamp(progress - HeaderStart, 0, HeaderLen)

\* xPercent of .header-1 over HeaderLen
Header1XPercent(progress) ==
    IF progress < HeaderStay THEN 0
    ELSE IF progress > HeaderGone THEN (0 - 100) * HeaderLen
    ELSE (0 - 100) * HeaderProgress(progress)

\* faulty variant: the mask window of the earlier timeline, 45% - 60%
MaskSizeOldWindow(progress) ==
    IF progress < Pct(45) THEN 0
    ELSE IF progress > Pct(60) THEN 100 * MaskLen
    ELSE (100 * (progress - Pct(45)) * MaskLen) \div Pct(15)

\* maskSize (percent) over MaskLen
MaskSize(progress) ==
    IF progress < MaskStart THEN 0
    ELSE IF progress > MaskEnd THEN 100 * MaskLen
    ELSE 100 * (progress - MaskStart)

\* numerator of slideProgress over SlideLen; it is computed in the last branch only
SlideProgress(progress) ==
    IF progress < Header2Start \/ progress > Header2End THEN Unset
    ELSE progress - Header2Start

\* faulty variant: past its window the header is put back where it started
Header2XPercentReturns(progress) ==
    IF progress < Header2Start \/ progress > Header2End THEN 100 * SlideLen
    ELSE 100 * SlideLen - 200 * SlideProgress(progress)

\* header2XPercent over SlideLen
Header2XPercent(progress) ==
    IF progress < Header2Start THEN 100 * SlideLen
    ELSE IF progress > Header2End THEN (0 - 100) * SlideLen
    ELSE 100 * SlideLen - 200 * SlideProgress(progress)

Header2ZIndex(progress) == IF progress >= Header2Start THEN 10 ELSE 1

Header2Opacity(progress) == IF progress >= Header2Start THEN 1 ELSE 0

\* numerator of colorProgress over ColorLen
ColorProgress(progress) ==
    IF progress < ColorStart THEN 0
    ELSE IF progress > ColorEnd THEN ColorLen
    ELSE progress - ColorStart

\* faulty variant: Math.floor in place of Math.round
ColorValueFloor(progress) == (255 * (ColorLen - ColorProgress(progress))) \div ColorLen

\* Math.round(255 * (1 - colorProgress))
ColorValue(progress) == Round(255 * (ColorLen - ColorProgress(progress)), ColorLen)

TargetRotation(progress) == RotationFactor * progress

\* faulty variant: only a forward difference counts
RotationSignificantForward(rotationDiff) == rotationDiff > RotationEpsilon

RotationSignificant(rotationDiff) == Abs(rotationDiff) > RotationEpsilon

\* every value the handler hands to gsap.to for a DOM target
MainTargets(progress) ==
    [gradientOpacity |-> GradientOpacity(progress),
     modelScale      |-> ModelScale(progress),
     containerBox    |-> ContainerBox(progress),
     header1X        |-> Header1XPercent(progress),
     maskSize        |-> MaskSize(progress),
     header2X        |-> Header2XPercent(progress),
     header2Z        |-> Header2ZIndex(progress),
     header2Opacity  |-> Header2Opacity(progress),
     header2Color    |-> ColorValue(progress)]

\* the targets before the first update: gsap.set gives scale 0.8 and opacity 0
InitialTargets ==
    [gradientOpacity |-> Unset,
     modelScale      |-> 8 * ModelLen,
     containerBox    |-> "auto",
     header1X        |-> Unset,
     maskSize        |-> Unset,
     header2X        |-> Unset,
     header2Z        |-> Unset,
     header2Opacity  |-> 0,
     header2Color    |-> Unset]

\* faulty variant: the entrance rule without its guard
EntranceGuardMissing == TRUE

\* the `model && finalModelPosition && modelSize` test and the `model` test
EntranceGuard == model.present /\ modelSize # ZeroVec
RotationGuard == model.present

\* the sub-progress constants of one run of the handler
MainLocals(progress) ==
    [entranceProgress |-> IF EntranceGuard THEN EntranceProgress(progress) ELSE Unset,
     modelProgress    |-> ModelProgress(progress),
     headerProgress   |-> HeaderProgress(progress),
     slideProgress    |-> SlideProgress(progress),
     colorProgress    |-> ColorProgress(progress)]

InitialLocals ==
    [entranceProgress |-> Unset, modelProgress |-> Unset, headerProgress |-> Unset,
     slideProgress |-> Unset, colorProgress |-> Unset]

\* faulty variant: the tracker eased half-way to the target
RotationAfterEased(current, present, progress) ==
    IF present /\ RotationSignificant(TargetRotation(progress) - current)
    THEN current + (TargetRotation(progress) - current) \div 2
    ELSE current

\* faulty variant: the tracker follows the target whether or not the model is turned
RotationAfterAlways(current, present, progress) ==
    IF present THEN TargetRotation(progress) ELSE current

\* the tracker after the rotation rule has run at `progress`: it moves to the target
\* only when the model is there and the difference is significant
RotationAfter(current, present, progress) ==
    IF present /\ RotationSignificant(TargetRotation(progress) - current)
    THEN TargetRotation(progress)
    ELSE current

\* the angle handed to model.rotateOnAxis at `progress`: rotationDiff when it is
\* significant, nothing otherwise
RotationDelta(current, present, progress) ==
    IF present /\ RotationSignificant(TargetRotation(progress) - current)
    THEN TargetRotation(progress) - current
    ELSE 0

\* faulty variant: the progress is tracked only while the model is there
MainOnUpdateGuarded(progress) ==
    /\ currentScrollProgress' = IF model.present THEN progress ELSE currentScrollProgress
    /\ targets' = MainTargets(progress)
    /\ locals' = MainLocals(progress)
    /\ yTween' = IF EntranceGuard THEN CurrentY(progress) ELSE yTween
    /\ currentRotation' = RotationAfter(currentRotation, RotationGuard, progress)
    /\ model' = [model EXCEPT !.rotY = model.rotY
                                + RotationDelta(currentRotation, RotationGuard, progress)]
    /\ fault' = (fault \/ ((EntranceGuard \/ RotationGuard) /\ ~model.present))

\* onUpdate of the pinned ScrollTrigger
MainOnUpdate(progress) ==
    /\ currentScrollProgress' = progress
    /\ targets' = MainTargets(progress)
    /\ locals' = MainLocals(progress)
    /\ yTween' = IF EntranceGuard THEN CurrentY(progress) ELSE yTween
    /\ currentRotation' = RotationAfter(currentRotation, RotationGuard, progress)
    /\ model' = [model EXCEPT !.rotY = model.rotY
                                + RotationDelta(currentRotation, RotationGuard, progress)]
    /\ fault' = (fault \/ ((EntranceGuard \/ RotationGuard) /\ ~model.present))

\* the main trigger does not fire: its progress is unchanged or it was never created
MainQuiet ==
    UNCHANGED <<currentScrollProgress, targets, locals, yTween, model,
                currentRotation, fault>>

---------------------------------------------------------------------------
(* ScrollTrigger: progress of a trigger and the callbacks of one scroll event *)

\* numerator of a trigger's progress over its length `end` (both in scroll units)
TriggerProgress(pos, end) == Clamp(pos, 0, end)

\* progress >= pct% and progress <= pct%, for progress = num/den
AtLeast(num, den, pct) == num * 100 >= pct * den
AtMost(num, den, pct) == num * 100 <= pct * den

\* The toggle callbacks ScrollTrigger runs after onUpdate when progress moves from
\* prev to new: onEnter when it leaves 0, onLeave when it reaches the end,
\* onEnterBack when it leaves the end, onLeaveBack when it reaches 0; a jump
\* across the whole range runs both.
ToggleCallbacks(prev, new, end) ==
    LET isActive  == new > 0 /\ new < end
        wasActive == prev > 0 /\ prev < end
        toggled   == isActive # wasActive
        changed   == toggled \/ ((new > 0) # (prev > 0))
        first     == IF new > 0 /\ prev = 0 THEN "onEnter"
                     ELSE IF new = end THEN "onLeave"
                     ELSE IF prev = end THEN "onEnterBack"
                     ELSE "onLeaveBack"
        second    == IF new = end THEN "onLeave" ELSE "onLeaveBack"
    IN  IF ~changed THEN <<>>
        ELSE IF toggled THEN <<first>>
        ELSE <<first, second>>

---------------------------------------------------------------------------
(* Logo colour trigger on .product-overview *)

LogoWindowStart == 20
LogoWindowEnd == 28

\* numerator of transitionProgress over den: (progress - 0.2) / 0.01
TransitionProgress(num, den) == 100 * num - LogoWindowStart * den

\* the colour channel onUpdate hands to gsap.to(".logo") and the sub-progress it computed
LogoOnUpdate(num, den) ==
    IF AtLeast(num, den, LogoWindowStart) /\ AtMost(num, den, LogoWindowEnd)
    THEN [color |-> Round(255 * (den - TransitionProgress(num, den)), den),
          transitionProgress |-> TransitionProgress(num, den)]
    ELSE IF ~AtMost(num, den, LogoWindowEnd)
    THEN [color |-> 0, transitionProgress |-> Unset]
    ELSE [color |-> 255, transitionProgress |-> Unset]

\* onEnter "#ffffff", onLeave "#fff", onLeaveBack "#000000"; there is no onEnterBack
LogoToggleColor(callback, before) ==
    IF callback = "onEnter" \/ callback = "onLeave" THEN 255
    ELSE IF callback = "onLeaveBack" THEN 0
    ELSE before

RECURSIVE LogoAfterToggles(_, _)
LogoAfterToggles(callbacks, color) ==
    IF callbacks = <<>> THEN color
    ELSE LogoAfterToggles(Tail(callbacks), LogoToggleColor(Head(callbacks), color))

\* the logo trigger's callbacks for one scroll event, onUpdate first
LogoScroll(pos) ==
    LET prev == TriggerProgress(scrollPos, LogoEnd)
        new  == TriggerProgress(pos, LogoEnd)
        upd  == LogoOnUpdate(new, LogoEnd)
    IN  IF new = prev THEN UNCHANGED logo
        ELSE logo' = [color |-> LogoAfterToggles(ToggleCallbacks(prev, new, LogoEnd),
                                                 upd.color),
                      transitionProgress |-> upd.transitionProgress]

---------------------------------------------------------------------------
(* Pinned fixed text trigger *)

TextShowFrom == 40
TextShowTo == 65

ShouldShowText(num, den) == AtLeast(num, den, TextShowFrom) /\ AtMost(num, den, TextShowTo)

PinnedTextScroll(pos) ==
    LET prev == TriggerProgress(scrollPos, PinnedTextEnd)
        new  == TriggerProgress(pos, PinnedTextEnd)
    IN  IF new = prev THEN UNCHANGED pinnedText
        ELSE pinnedText' = IF ShouldShowText(new, PinnedTextEnd) THEN "shown" ELSE "hidden"

---------------------------------------------------------------------------
(* setupModel and applyEntranceAnimationState *)

\* faulty variant: a width of exactly 768 counts as mobile
IsMobileInclusive(w) == w <= MobileBreakpoint

IsMobile(w) == w < MobileBreakpoint

\* centre of new THREE.Box3().setFromObject(model): the box of the model where it
\* stands, that is the centre of its geometry moved by model.position
BoxCenter(m) ==
    [x |-> m.center.x + m.pos.x, y |-> m.center.y + m.pos.y, z |-> m.center.z + m.pos.z]

NewPosition(m, size, w) ==
    LET center == BoxCenter(m)
    IN  [x |-> IF IsMobile(w) THEN center.x * 1
               ELSE (0 - center.x) - (size.x * HorizontalOffsetNum) \div HorizontalOffsetDen,
         y |-> (0 - center.y) + (size.y * VerticalOffsetNum) \div VerticalOffsetDen,
         z |-> 0 - center.z]

StartPositionY(newPositionY, size) == newPositionY - (size.y * 3) \div 2

RotationDegrees(w) == IF IsMobile(w) THEN RotationMobile ELSE RotationDesktop

Max3(a, b, c) == Max(a, Max(b, c))

CameraZ(size, w) ==
    Max3(size.x, size.y, size.z)
        * (IF IsMobile(w) THEN CameraDistanceMobile ELSE CameraDistanceDesktop)

\* `if (!model || !modelSize) return`
SetupModelGuard(m, size) == m.present /\ size # ZeroVec

\* setupModel() on model m: the model placed, the final position and the camera
SetupModel(m, size, w, final, cam) ==
    IF ~SetupModelGuard(m, size)
    THEN [model |-> m, final |-> final, camera |-> cam]
    ELSE LET new == NewPosition(m, size, w)
         IN  [model  |-> [m EXCEPT !.pos = [x |-> new.x,
                                            y |-> StartPositionY(new.y, size),
                                            z |-> new.z],
                                   !.rotZ = RotationDegrees(w)],
              final  |-> new,
              camera |-> CameraZ(size, w)]

\* the guard of applyEntranceAnimationState
ApplyEntranceGuard(m, size) == m.present /\ size # ZeroVec

\* applyEntranceAnimationState(): model.position.y set directly
ApplyEntranceAnimationState(m, size, final, progress) ==
    IF ~ApplyEntranceGuard(m, size) THEN m
    ELSE [m EXCEPT !.pos.y = EntranceY(final.y, size.y,
                                       Clamp(progress, 0, ResizeEntranceLen),
                                       ResizeEntranceLen)]

NoModel == [present |-> FALSE, pos |-> ZeroVec, center |-> ZeroVec, rotZ |-> 0, rotY |-> 0]

---------------------------------------------------------------------------
(* Inputs *)

\* the progress thresholds of the handlers, as scroll offsets; 125% is the end of
\* the logo trigger, 45% the end of the pinned-text trigger
Breakpoints ==
    {Pct(n) : n \in {0, 5, 6, 8, 10, 12, 15, 18, 20, 21, 24, 28, 30, 35, 45, 50, 90,
                     100, 125}}

\* thresholds probed on both sides, up to Near units away
FineBreakpoints == {Pct(n) : n \in {0, 5, 20, 28, 100}}

ScrollStops ==
    Breakpoints \cup {b + d : b \in FineBreakpoints, d \in (0 - Near)..Near}

\* the scroll offsets of the whole-page specification: one in each phase of the entrance
\* (0-5% in the scroll handler, 0-12% on resize), one in the mask window, both ends
PageStops == {Pct(n) : n \in {0, 2, 5, 8, 12, 24, 100, 125}}

Widths == {MobileBreakpoint - 1, MobileBreakpoint}

\* bounding box of the unscaled asset: size and centre
Assets ==
    {[size |-> [x |-> 5000, y |-> 10000, z |-> 4000],
      center |-> [x |-> 250, y |-> 5000, z |-> 0 - 250]]}

Scaled(v) == [x |-> v.x * ScaleFactor, y |-> v.y * ScaleFactor, z |-> v.z * ScaleFactor]

---------------------------------------------------------------------------
(* The page: state after the DOMContentLoaded handler has run *)

\* the pinned trigger, the load, the render loop and the second resize listener are
\* set up only after the renderer exists
RendererCreated == renderer # "none"

---------------------------------------------------------------------------
(* Tooltips: the timers, the timelines and their ScrollTriggers.  Time is    *)
(* counted in ticks of TickMs milliseconds.  A timer runs no earlier than its *)
(* deadline and no later timer runs before it.  In Spec, SpecScrub and       *)
(* SpecTooltip it runs at its deadline, before the clock moves on and before *)
(* a resize event of the same instant; in SpecLate the page may be busy and  *)
(* a timer may run late.  Two setTimeout calls of the same function may be   *)
(* pending with one deadline, so their deadlines are kept in bags.           *)

TickMs == 50
\* setTimeout(setupTooltipText, 100), setTimeout(createTooltipScrollTriggers, 50),
\* the retry after 100, the state check after 200 and the resize debounce of 250
SetupDelay == 100 \div TickMs
TriggersDelay == 50 \div TickMs
RetryDelay == 100 \div TickMs
CheckDelay == 200 \div TickMs
DebounceDelay == 250 \div TickMs
\* the dividers' tween, 1.5 s from 0, is the longest of a timeline
TimelineDuration == 1500 \div TickMs
\* tooltipSelectors has two entries
TooltipCount == 2

\* progress >= 0.45 && progress <= 0.85 in onUpdate
TooltipFrom == 45
TooltipTo == 85
\* progress >= 0.35 && progress <= 0.45 in onRefresh and the toggle callbacks
RefreshFrom == 35
RefreshTo == 45
\* progress >= 0.7 && progress <= 0.89 in the state check
CheckFrom == 70
CheckTo == 89

\* gsap.timeline({ paused: true }): the play head in ticks and the direction
NewTimeline == [head |-> 0, dir |-> "paused"]

\* timeline.play(), timeline.reverse(): the head does not move in the call
Play(t) == [t EXCEPT !.dir = "playing"]
Reverse(t) == [t EXCEPT !.dir = "reversed"]
\* timeline.progress(1), timeline.progress(0): the head jumps, the direction stays
SetProgress(t, whole) == [t EXCEPT !.head = IF whole THEN TimelineDuration ELSE 0]

\* one tick of the gsap ticker on a timeline
AdvanceTimeline(t) ==
    IF t.dir = "playing" /\ t.head < TimelineDuration THEN [t EXCEPT !.head = t.head + 1]
    ELSE IF t.dir = "reversed" /\ t.head > 0 THEN [t EXCEPT !.head = t.head - 1]
    ELSE t

IsInTooltipRange(num, den) == AtLeast(num, den, TooltipFrom) /\ AtMost(num, den, TooltipTo)

IsInRefreshRange(num, den) == AtLeast(num, den, RefreshFrom) /\ AtMost(num, den, RefreshTo)

IsInCheckRange(num, den) == AtLeast(num, den, CheckFrom) /\ AtMost(num, den, CheckTo)

TooltipOnUpdate(t, num, den) == IF IsInTooltipRange(num, den) THEN Play(t) ELSE Reverse(t)

TooltipOnRefresh(t, num, den) == SetProgress(t, IsInRefreshRange(num, den))

\* onEnter, onLeave, onEnterBack and onLeaveBack of a tooltip trigger
TooltipToggle(callback, t, num, den) ==
    IF callback = "onEnter"
    THEN (IF AtLeast(num, den, RefreshFrom) THEN Play(t) ELSE t)
    ELSE IF callback = "onLeave"
    THEN (IF ~AtMost(num, den, RefreshTo) THEN Reverse(t) ELSE t)
    ELSE IF callback = "onEnterBack"
    THEN (IF IsInRefreshRange(num, den) THEN Play(t) ELSE t)
    ELSE (IF ~AtLeast(num, den, RefreshFrom) THEN Reverse(t) ELSE t)

RECURSIVE TooltipAfterToggles(_, _, _, _)
TooltipAfterToggles(callbacks, t, num, den) ==
    IF callbacks = <<>> THEN t
    ELSE TooltipAfterToggles(Tail(callbacks), TooltipToggle(Head(callbacks), t, num, den),
                             num, den)

\* the callbacks of one tooltip trigger when its progress moves from prev to new
TooltipTriggerUpdate(t, prev, new) ==
    IF new = prev THEN t
    ELSE TooltipAfterToggles(ToggleCallbacks(prev, new, MainEnd),
                             TooltipOnUpdate(t, new, MainEnd), new, MainEnd)

\* a scroll event seen by the tooltip triggers that are alive
TooltipScroll(pos) ==
    IF tooltipScrollTriggers = 0 THEN UNCHANGED tooltipTimelines
    ELSE tooltipTimelines' =
            [i \in DOMAIN tooltipTimelines |->
                TooltipTriggerUpdate(tooltipTimelines[i],
                                     TriggerProgress(scrollPos, MainEnd),
                                     TriggerProgress(pos, MainEnd))]

\* currentScroll - triggerTop of the state check: getBoundingClientRect().top of
\* .product-overview is 0 while the main trigger pins it and MainEnd - pos once the
\* pin has let it go; without the main trigger the section scrolls with the page
CheckOffset(pos) ==
    IF RendererCreated THEN (IF pos <= MainEnd THEN 0 ELSE pos - MainEnd)
    ELSE pos

\* the body of setupTooltipText: createTooltipTimelines and the 50 ms timer
SetupTooltipText(pending) ==
    /\ tooltipTimelines' = [i \in 1..TooltipCount |-> NewTimeline]
    /\ timers' = [pending EXCEPT !.triggers = @ (+) SetToBag({clock + TriggersDelay})]

\* the deadlines of the pending timers
PendingDeadlines ==
    (IF timers.setup = Unset THEN {} ELSE {timers.setup})
        \cup BagToSet(timers.triggers) \cup BagToSet(timers.checks) \cup timers.rebuilds

\* some timer is due now
TimerDue == \E due \in PendingDeadlines : due <= clock

\* the event loop may run the timer of this deadline now: it is due, and no pending
\* timer is due before it
MayRun(deadline) ==
    /\ deadline <= clock
    /\ \A due \in PendingDeadlines : deadline <= due

NoTimers ==
    [setup |-> SetupDelay, triggers |-> EmptyBag, checks |-> EmptyBag, rebuilds |-> {}]

\* faulty variant: the listener does not clear the timer it set before
ScheduleRebuildNoClear(pending, handle, now) == pending \cup {now + DebounceDelay}

\* clearTimeout(resizeTimeout); resizeTimeout = setTimeout(..., 250)
ScheduleRebuild(pending, handle, now) == (pending \ {handle}) \cup {now + DebounceDelay}

\* ---- the direct-scrub variant (unnamed/part_001): the main onUpdate sets the head
\* of each paused tooltip timeline from the progress.  A head is kept as the numerator
\* of timeline.progress() over DirectWindow.

\* tooltipSelectors[i].trigger
DirectTriggers == <<Pct(45), Pct(47)>>
\* the divisor 0.1 of the tooltip window
DirectWindow == Pct(10)

\* faulty variant: the sub-progress is not clamped at 1
DirectTooltipProgressUnclamped(progress, trigger) ==
    IF progress >= trigger THEN progress - trigger ELSE 0

\* Math.min(1, (progress - trigger) / 0.1) at or above the trigger, 0 below it
DirectTooltipProgress(progress, trigger) ==
    IF progress >= trigger
    THEN (IF progress - trigger > DirectWindow THEN DirectWindow ELSE progress - trigger)
    ELSE 0

\* createTooltipTimelines(): paused timelines, heads at 0
DirectNewTimelines == [i \in DOMAIN DirectTriggers |-> 0]

DirectInit ==
    [progress |-> 0, timelines |-> <<>>, setupAt |-> SetupDelay, rebuildAt |-> Unset]

DirectTimerDue == direct.setupAt = clock \/ direct.rebuildAt = clock

Init ==
    /\ direct = DirectInit
    /\ renderer \in {"webgl2", "webgl1", "none"}
    /\ containerContent = IF renderer = "none" THEN "fallback" ELSE "canvas"
    /\ consoleLog = IF renderer = "webgl2" THEN {}
                    ELSE IF renderer = "webgl1" THEN {"WebGL2 not available"}
                    ELSE {"WebGL2 not available", "WebGL not supported"}
    /\ width \in Widths
    /\ resizes = 0
    /\ scrollPos = 0
    /\ loadState = IF renderer = "none" THEN "none" ELSE "pending"
    /\ loadStarts = IF renderer = "none" THEN 0 ELSE 1
    /\ model = NoModel
    /\ modelSize = ZeroVec
    /\ finalModelPosition = ZeroVec
    /\ camera = 0
    /\ currentRotation = 0
    /\ currentScrollProgress = 0
    /\ yTween = Unset
    /\ rendered = FALSE
    /\ fault = FALSE
    /\ targets = InitialTargets
    /\ locals = InitialLocals
    /\ logo = [color |-> 0, transitionProgress |-> Unset]
    /\ pinnedText = "hidden"
    /\ clock = 0
    /\ timers = NoTimers
    /\ resizeTimeout = Unset
    /\ tooltipTimelines = <<>>
    /\ tooltipScrollTriggers = 0
    /\ rebuilds = 0
    /\ lastResizeAt = Unset

\* a scroll event: every trigger whose progress changes runs its callbacks
ScrollTo(pos) ==
    /\ pos # scrollPos
    /\ scrollPos' = pos
    /\ LogoScroll(pos)
    /\ PinnedTextScroll(pos)
    /\ IF RendererCreated
          /\ TriggerProgress(pos, MainEnd) # TriggerProgress(scrollPos, MainEnd)
       THEN MainOnUpdate(TriggerProgress(pos, MainEnd))
       ELSE MainQuiet
    /\ TooltipScroll(pos)
    /\ UNCHANGED <<renderer, containerContent, consoleLog, width, resizes, loadState,
                   loadStarts, modelSize, finalModelPosition, camera, rendered>>
    /\ UNCHANGED <<clock, timers, resizeTimeout, tooltipScrollTriggers, rebuilds,
                   lastResizeAt>>
    /\ UNCHANGED direct

\* success callback of GLTFLoader.load
LoadSuccess(asset) ==
    /\ loadState = "pending"
    /\ loadState' = "loaded"
    /\ LET size   == Scaled(asset.size)
           loaded == [present |-> TRUE, pos |-> ZeroVec, center |-> Scaled(asset.center),
                      rotZ |-> 0, rotY |-> 0]
           setup  == SetupModel(loaded, size, width, finalModelPosition, camera)
       IN  /\ modelSize' = size
           /\ model' = setup.model
           /\ finalModelPosition' = setup.final
           /\ camera' = setup.camera
    /\ UNCHANGED <<renderer, containerContent, consoleLog, width, resizes, scrollPos,
                   loadStarts, currentRotation, currentScrollProgress, yTween, rendered,
                   fault, targets, locals, logo, pinnedText>>
    /\ UNCHANGED tipVars
    /\ UNCHANGED direct

\* faulty variant: the error callback starts the load again
LoadErrorRetry ==
    /\ loadState = "pending"
    /\ loadStarts' = loadStarts + 1
    /\ consoleLog' = consoleLog \cup {"Failed to load 3D model"}
    /\ UNCHANGED <<renderer, containerContent, width, resizes, scrollPos, loadState,
                   model, modelSize, finalModelPosition, camera, currentRotation,
                   currentScrollProgress, yTween, rendered, fault, targets, locals,
                   logo, pinnedText>>
    /\ UNCHANGED tipVars
    /\ UNCHANGED direct

\* error callback of GLTFLoader.load
LoadError ==
    /\ loadState = "pending"
    /\ loadState' = "failed"
    /\ consoleLog' = consoleLog \cup {"Failed to load 3D model"}
    /\ UNCHANGED <<renderer, containerContent, width, resizes, scrollPos, loadStarts,
                   model, modelSize, finalModelPosition, camera, currentRotation,
                   currentScrollProgress, yTween, rendered, fault, targets, locals,
                   logo, pinnedText>>
    /\ UNCHANGED tipVars
    /\ UNCHANGED direct

\* a resize event: the tooltip listener restarts its timer, and the listener
\* registered after the renderer exists places the model again
ResizeListeners(w) ==
    /\ timers' = [timers EXCEPT !.rebuilds = ScheduleRebuild(@, resizeTimeout, clock)]
    /\ resizeTimeout' = clock + DebounceDelay
    /\ lastResizeAt' = clock
    /\ UNCHANGED <<clock, tooltipTimelines, tooltipScrollTriggers, rebuilds>>
    /\ resizes' = resizes + 1
    /\ width' = w
    /\ IF RendererCreated
       THEN LET setup == SetupModel(model, modelSize, w, finalModelPosition, camera)
            IN  /\ model' = ApplyEntranceAnimationState(setup.model, modelSize,
                                                        setup.final, currentScrollProgress)
                /\ finalModelPosition' = setup.final
                /\ camera' = setup.camera
                /\ fault' = (fault \/ ((SetupModelGuard(model, modelSize)
                                          \/ ApplyEntranceGuard(model, modelSize))
                                       /\ ~model.present))
       ELSE UNCHANGED <<model, finalModelPosition, camera, fault>>
    /\ UNCHANGED <<renderer, containerContent, consoleLog, scrollPos, loadState,
                   loadStarts, modelSize, currentRotation, currentScrollProgress, yTween,
                   rendered, targets, locals, logo, pinnedText>>
    /\ UNCHANGED direct

\* a resize event that reaches the page when no timer is due
ResizeEvent(w) == ~TimerDue /\ ResizeListeners(w)

Resize(w) == resizes < MaxResizes /\ ResizeEvent(w)

\* a resize event of a burst
ResizeBurst(w) == resizes < MaxBurst /\ ResizeEvent(w)

\* a resize event of a burst while timers may be overdue
ResizeLate(w) == resizes < MaxBurst /\ ResizeListeners(w)

\* the `if (model)` test of the render loop
RenderGuard == model.present

\* one frame of animate()
Animate ==
    /\ RendererCreated
    /\ rendered' = (rendered \/ RenderGuard)
    /\ fault' = (fault \/ (RenderGuard /\ ~model.present))
    /\ UNCHANGED <<renderer, containerContent, consoleLog, width, resizes, scrollPos,
                   loadState, loadStarts, model, modelSize, finalModelPosition, camera,
                   currentRotation, currentScrollProgress, yTween, targets, locals,
                   logo, pinnedText>>
    /\ UNCHANGED tipVars
    /\ UNCHANGED direct

\* the newest position tween reaches its end value (0.3 s after the update)
TweenComplete ==
    /\ yTween # Unset
    /\ model' = [model EXCEPT !.pos.y = yTween]
    /\ yTween' = Unset
    /\ UNCHANGED <<renderer, containerContent, consoleLog, width, resizes, scrollPos,
                   loadState, loadStarts, modelSize, finalModelPosition, camera,
                   currentRotation, currentScrollProgress, rendered, fault, targets,
                   locals, logo, pinnedText>>
    /\ UNCHANGED tipVars
    /\ UNCHANGED direct

\* the gsap ticker and the clock: TickMs milliseconds pass
Elapse ==
    /\ clock < MaxTime
    /\ clock' = clock + 1
    /\ tooltipTimelines' =
            [i \in DOMAIN tooltipTimelines |-> AdvanceTimeline(tooltipTimelines[i])]
    /\ UNCHANGED <<timers, resizeTimeout, tooltipScrollTriggers, rebuilds, lastResizeAt>>
    /\ UNCHANGED sceneVars
    /\ UNCHANGED direct

\* time passes only when no timer is due
Tick == ~TimerDue /\ Elapse

\* time passes while the page is busy: due timers wait
TickLate == Elapse

\* setTimeout(setupTooltipText, 100) runs
SetupTimer ==
    /\ timers.setup # Unset
    /\ MayRun(timers.setup)
    /\ SetupTooltipText([timers EXCEPT !.setup = Unset])
    /\ UNCHANGED <<clock, resizeTimeout, tooltipScrollTriggers, rebuilds, lastResizeAt>>
    /\ UNCHANGED sceneVars
    /\ UNCHANGED direct

\* the body of createTooltipScrollTriggers with the other timers `rest`: each new
\* trigger refreshes at the current scroll offset (onRefresh) and runs the callbacks of
\* its first update
CreateTooltipScrollTriggersBody(rest) ==
    LET p == TriggerProgress(scrollPos, MainEnd)
    IN  IF Len(tooltipTimelines) = 0
        THEN /\ timers' = [rest EXCEPT !.triggers = @ (+) SetToBag({clock + RetryDelay})]
             /\ UNCHANGED <<tooltipTimelines, tooltipScrollTriggers>>
        ELSE /\ tooltipTimelines' =
                    [i \in DOMAIN tooltipTimelines |->
                        TooltipTriggerUpdate(
                            TooltipOnRefresh(tooltipTimelines[i], p, MainEnd), 0, p)]
             /\ tooltipScrollTriggers' = tooltipScrollTriggers + Len(tooltipTimelines)
             /\ timers' = [rest EXCEPT !.checks = @ (+) SetToBag({clock + CheckDelay})]

\* setTimeout(createTooltipScrollTriggers, ...) runs
CreateTooltipScrollTriggers ==
    /\ \E due \in BagToSet(timers.triggers) :
        /\ MayRun(due)
        /\ CreateTooltipScrollTriggersBody([timers EXCEPT !.triggers = @ (-) SetToBag({due})])
    /\ UNCHANGED <<clock, resizeTimeout, rebuilds, lastResizeAt>>
    /\ UNCHANGED sceneVars
    /\ UNCHANGED direct

\* the 200 ms state check: ScrollTrigger.refresh() runs onRefresh of the live tooltip
\* triggers, then the heads are set from the offset measured by hand
InitialStateCheck ==
    /\ \E due \in BagToSet(timers.checks) :
        /\ MayRun(due)
        /\ timers' = [timers EXCEPT !.checks = @ (-) SetToBag({due})]
    /\ LET p         == TriggerProgress(scrollPos, MainEnd)
           refreshed == IF tooltipScrollTriggers > 0
                        THEN [i \in DOMAIN tooltipTimelines |->
                                TooltipOnRefresh(tooltipTimelines[i], p, MainEnd)]
                        ELSE tooltipTimelines
           offset    == CheckOffset(scrollPos)
       IN  tooltipTimelines' =
                IF offset <= CheckEnd
                THEN [i \in DOMAIN tooltipTimelines |->
                        SetProgress(refreshed[i], IsInCheckRange(offset, CheckEnd))]
                ELSE refreshed
    /\ UNCHANGED <<clock, resizeTimeout, tooltipScrollTriggers, rebuilds, lastResizeAt>>
    /\ UNCHANGED sceneVars
    /\ UNCHANGED direct

\* the debounced rebuild: splits reverted, timelines and triggers killed,
\* setupTooltipText() again
ResizeRebuild ==
    /\ rebuilds' = rebuilds + 1
    /\ tooltipScrollTriggers' = 0
    /\ \E due \in timers.rebuilds :
        /\ MayRun(due)
        /\ SetupTooltipText([timers EXCEPT !.rebuilds = @ \ {due}])
    /\ UNCHANGED <<clock, resizeTimeout, lastResizeAt>>
    /\ UNCHANGED sceneVars
    /\ UNCHANGED direct

\* ---- actions of the direct-scrub variant

\* onUpdate of its pinned ScrollTrigger: currentScrollProgress and the tooltip rule
DirectUpdate(progress) ==
    /\ RendererCreated
    /\ progress # direct.progress
    /\ direct' = [direct EXCEPT
                    !.progress = progress,
                    !.timelines = [i \in DOMAIN direct.timelines |->
                                     DirectTooltipProgress(progress, DirectTriggers[i])]]
    /\ UNCHANGED <<sceneVars, tipVars>>

\* setTimeout(setupTooltipText, 100) runs: the timelines are created
DirectSetupTimer ==
    /\ direct.setupAt = clock
    /\ direct' = [direct EXCEPT !.timelines = DirectNewTimelines, !.setupAt = Unset]
    /\ UNCHANGED <<sceneVars, tipVars>>

\* a resize event: clearTimeout(resizeTimeout); resizeTimeout = setTimeout(..., 250)
DirectResize ==
    /\ ~DirectTimerDue
    /\ direct' = [direct EXCEPT !.rebuildAt = clock + DebounceDelay]
    /\ UNCHANGED <<sceneVars, tipVars>>

\* the debounced rebuild: the timelines are killed and created again
DirectRebuild ==
    /\ direct.rebuildAt = clock
    /\ direct' = [direct EXCEPT !.timelines = DirectNewTimelines, !.rebuildAt = Unset]
    /\ UNCHANGED <<sceneVars, tipVars>>

\* TickMs milliseconds pass; the timelines are paused and do not move
DirectTick ==
    /\ ~DirectTimerDue
    /\ clock < MaxTime
    /\ clock' = clock + 1
    /\ UNCHANGED <<timers, resizeTimeout, tooltipTimelines, tooltipScrollTriggers,
                   rebuilds, lastResizeAt>>
    /\ UNCHANGED <<sceneVars, direct>>

\* progress values below both triggers, between them, inside both windows, past the
\* end of the first window only, and past both
DirectStops == {Pct(n) : n \in {0, 45, 46, 47, 50, 56, 60, 100}}

NextDirect ==
    \/ \E p \in DirectStops : DirectUpdate(p)
    \/ DirectSetupTimer
    \/ DirectResize
    \/ DirectRebuild
    \/ DirectTick

SpecDirect == Init /\ [][NextDirect]_vars

\* the scene: scroll, load, resize and frames before the tooltip timers run
Next ==
    \/ \E pos \in PageStops : ScrollTo(pos)
    \/ \E asset \in Assets : LoadSuccess(asset)
    \/ LoadError
    \/ \E w \in Widths : Resize(w)
    \/ Animate
    \/ TweenComplete

Spec == Init /\ [][Next]_vars

\* scrubbing: scroll events at every threshold of the handlers, and the load; the
\* viewport does not change and no tween is waited for
NextScrub ==
    \/ \E pos \in ScrollStops : ScrollTo(pos)
    \/ \E asset \in Assets : LoadSuccess(asset)
    \/ LoadError

SpecScrub == Init /\ [][NextScrub]_vars

\* scroll offsets around the tooltip windows: outside, in the onRefresh window only,
\* in the onUpdate window only, past it, past the pin
TipStops == {Pct(n) : n \in {0, 40, 60, 90, 125}}

\* the tooltips: time, the timers, scroll and resize events
NextTooltip ==
    \/ \E pos \in TipStops : ScrollTo(pos)
    \/ \E w \in Widths : ResizeBurst(w)
    \/ Tick
    \/ SetupTimer
    \/ CreateTooltipScrollTriggers
    \/ InitialStateCheck
    \/ ResizeRebuild

SpecTooltip == Init /\ [][NextTooltip]_vars

\* the tooltips on a busy page: a timer may run after its deadline, in deadline order
NextLate ==
    \/ \E w \in Widths : ResizeLate(w)
    \/ TickLate
    \/ SetupTimer
    \/ CreateTooltipScrollTriggers
    \/ InitialStateCheck
    \/ ResizeRebuild

SpecLate == Init /\ [][NextLate]_vars

---------------------------------------------------------------------------
(* Properties *)

\* every progress value the scrubbing specification delivers to the main trigger
Progresses == {TriggerProgress(pos, MainEnd) : pos \in ScrollStops}

\* a sub-progress numerator lies in [0, len], or the constant was not computed
InUnit(num, len) == num = Unset \/ (0 <= num /\ num <= len)

\* the last main update ran with the model present
UpdatedWithModel == model.present /\ locals.entranceProgress # Unset

\* C1 as stated: from any reachable state with the model loaded, delivering p2 and
\* then p1 < p2 leaves the same target state, currentRotation included, as
\* delivering p1 alone.
C1_PathIndependent ==
    model.present =>
        \A p1, p2 \in Progresses :
            p1 < p2 =>
                RotationAfter(RotationAfter(currentRotation, RotationGuard, p2),
                              RotationGuard, p1)
                    = RotationAfter(currentRotation, RotationGuard, p1)

\* C1 amended: after any history the DOM targets and the position target are those of
\* the last delivered progress alone; delivering p2 then p1 and delivering p1 alone
\* both leave currentRotation within 0.001 rad of the target of p1, and leave it
\* equal to that target when it differs by more than 0.001 rad from both the target
\* of p2 and the rotation tracked before.
C1_PathIndependentUpToThreshold ==
    /\ targets # InitialTargets => targets = MainTargets(currentScrollProgress)
    /\ yTween # Unset => yTween = CurrentY(currentScrollProgress)
    /\ model.present =>
        \A p1, p2 \in Progresses :
            p1 < p2 =>
                LET viaP2  == RotationAfter(RotationAfter(currentRotation, TRUE, p2),
                                            TRUE, p1)
                    oneStep == RotationAfter(currentRotation, TRUE, p1)
                    t1     == RotationFactor * p1
                    t2     == RotationFactor * p2
                IN  /\ Abs(viaP2 - t1) <= RotationEpsilon
                    /\ Abs(oneStep - t1) <= RotationEpsilon
                    /\ (Abs(t1 - t2) > RotationEpsilon
                            /\ Abs(t1 - currentRotation) > RotationEpsilon)
                          => (viaP2 = t1 /\ oneStep = t1)

\* C1 witness: p1 = 1 - 1/Scale was delivered after p2 = 1 with the model loaded, and
\* the tracker still holds the target of p2.
C1_Witness ==
    /\ UpdatedWithModel
    /\ currentScrollProgress = Scale - 1
    /\ currentRotation = RotationFactor * Scale
    /\ targets = MainTargets(Scale - 1)

\* C2 as stated: every sub-progress a rule computes lies in [0,1]: the entrance, model,
\* header, slide and colour sub-progress, the mask fraction and the logo's
\* transitionProgress.
C2_SubProgressInUnitInterval ==
    /\ InUnit(locals.entranceProgress, EntranceLen)
    /\ InUnit(locals.modelProgress, ModelLen)
    /\ InUnit(locals.headerProgress, HeaderLen)
    /\ InUnit(locals.slideProgress, SlideLen)
    /\ InUnit(locals.colorProgress, ColorLen)
    /\ InUnit(targets.maskSize, 100 * MaskLen)
    /\ InUnit(logo.transitionProgress, LogoEnd)

C4_Header2Color ==
    targets.header2Color # Unset =>
        LET p == currentScrollProgress
            t == Clamp(p - Pct(18), 0, Pct(6))
            c == targets.header2Color
        IN  /\ c \in 0..255
            \* c = floor(255 * (1 - t) + 1/2), t = t / Pct(6)
            /\ 2 * c * Pct(6) <= 2 * 255 * (Pct(6) - t) + Pct(6)
            /\ 2 * 255 * (Pct(6) - t) + Pct(6) < 2 * (c + 1) * Pct(6)
            /\ p <= Pct(18) => c = 255
            /\ p >= Pct(24) => c = 0
            /\ p = Pct(21) => c = 128

\* C4 witness: the colour is (128,128,128) after the update at the midpoint 21%.
C4_Witness ==
    /\ currentScrollProgress = Pct(21)
    /\ targets.header2Color = 128

\* C5: a scroll update with the model loaded targets
\* y = FinalPosition.y - (1 - w) * ModelExtent.y * 1.5, w the clamped entrance
\* sub-progress: FinalPosition.y - 1.5 * ModelExtent.y at p = 0, FinalPosition.y at and
\* past the end of the entrance window, and between the two for every p.
C5_EntranceTarget ==
    [][(currentScrollProgress' # currentScrollProgress /\ model.present) =>
        LET p     == currentScrollProgress'
            w     == locals'.entranceProgress
            final == finalModelPosition'.y
            low   == final - (3 * modelSize'.y) \div 2
        IN  /\ w = Clamp(p, 0, EntranceLen)
            /\ (final - yTween') * 2 * EntranceLen = (EntranceLen - w) * 3 * modelSize'.y
            /\ p = 0 => yTween' = low
            /\ p >= EntranceLen => yTween' = final
            /\ low <= yTween' /\ yTween' <= final]_vars

\* C5 witness: an update inside the entrance window targets a y strictly between the
\* start position and FinalPosition.y.
C5_Witness ==
    /\ UpdatedWithModel
    /\ yTween # Unset
    /\ yTween < finalModelPosition.y
    /\ yTween > finalModelPosition.y - (3 * modelSize.y) \div 2

\* C6 as stated: at the end of the load-success callback the model's y is the entrance
\* value of the progress delivered last, not the start position of p = 0.
C6_LoadAppliesEntrance ==
    [][(~model.present /\ model'.present) =>
        model'.pos.y = EntranceY(finalModelPosition'.y, modelSize'.y,
                                 EntranceProgress(currentScrollProgress), EntranceLen)]_vars

\* C7: while the model is absent (load pending or failed) no scroll update, resize or
\* frame touches model state or faults, and a scroll update still applies the rules of
\* the headers, mask, colours and container.
C7_AbsentModelUntouched ==
    [][(~model.present /\ ~model'.present) =>
        /\ model' = model
        /\ modelSize' = modelSize
        /\ finalModelPosition' = finalModelPosition
        /\ camera' = camera
        /\ currentRotation' = currentRotation
        /\ yTween' = yTween
        /\ rendered' = rendered
        /\ ~fault'
        /\ currentScrollProgress' # currentScrollProgress =>
              /\ targets' = MainTargets(currentScrollProgress')
              /\ locals'.entranceProgress = Unset]_vars

\* C7 witness: after a failed load a resize and a scroll update to 24% were handled:
\* the mask is half open and nothing of the model was set.
C7_Witness ==
    /\ loadState = "failed"
    /\ resizes > 0
    /\ currentScrollProgress = Pct(24)
    /\ targets.maskSize = 50 * MaskLen
    /\ model = NoModel
    /\ ~rendered
    /\ ~fault

\* C8: the load is started at most once; a loaded model stays present, a failed load
\* leaves the model absent for good, is only logged, and nothing starts another load.
C8_LoadOnce ==
    /\ [](loadStarts <= 1 /\ (model.present <=> loadState = "loaded"))
    /\ [][/\ loadStarts' = loadStarts
          /\ loadState = "loaded" => loadState' = "loaded"
          /\ loadState = "failed" => loadState' = "failed"
          /\ (loadState = "pending" /\ loadState' = "failed") =>
                /\ "Failed to load 3D model" \in consoleLog'
                /\ UNCHANGED <<containerContent, model, modelSize, finalModelPosition,
                               camera, currentRotation, yTween, targets, logo,
                               pinnedText>>]_vars

\* C8 witness: the load has failed and scroll and resize events came after it without
\* a second load.
C8_Witness ==
    /\ loadState = "failed"
    /\ loadStarts = 1
    /\ resizes > 0
    /\ scrollPos = Pct(100)
    /\ ~model.present

\* C9 as stated: when both renderer constructions throw, the fallback replaces the
\* container content and nothing is animated afterwards: no load, no frame, no main
\* trigger, and no logo or pinned-text callback changes a visual target.
C9_FallbackSkipsChoreography ==
    renderer = "none" =>
        /\ containerContent = "fallback"
        /\ loadStarts = 0
        /\ ~rendered
        /\ targets = InitialTargets
        /\ logo.color = 0
        /\ pinnedText = "hidden"

\* C10 as stated: after an update at p = 1 with the model loaded the accumulated
\* rotation equals the closed-form target of p = 1 exactly.
C10_ExactAtEnd ==
    (UpdatedWithModel /\ currentScrollProgress = Scale) =>
        (model.rotY = currentRotation /\ currentRotation = RotationFactor * Scale)

\* C10 amended: an update that brings the progress to 1 with the model loaded leaves
\* the accumulated rotation equal to currentRotation and within 0.001 rad of the
\* target of p = 1, and equal to it when the update's difference exceeds 0.001 rad.
C10_WithinThresholdAtEnd ==
    [][(model.present /\ currentScrollProgress' = Scale /\ currentScrollProgress # Scale) =>
        /\ model'.rotY = currentRotation'
        /\ Abs(currentRotation' - RotationFactor * Scale) <= RotationEpsilon
        /\ Abs(RotationFactor * Scale - currentRotation) > RotationEpsilon
              => currentRotation' = RotationFactor * Scale]_vars

\* C10 witness: the progress reached 1 in a last small step and the tracker kept the
\* angle of the step before.
C10_Witness ==
    /\ UpdatedWithModel
    /\ currentScrollProgress = Scale
    /\ currentRotation = RotationFactor * (Scale - 1)
    /\ model.rotY = currentRotation

---------------------------------------------------------------------------
(* Properties of the tooltips *)

\* progress of the tooltip triggers at scroll offset pos
TooltipProgress(pos) == TriggerProgress(pos, MainEnd)

\* this step creates the tooltip triggers (initial attach) or runs the state check
TooltipsCreated == tooltipScrollTriggers' > tooltipScrollTriggers
StateChecked == BagCardinality(timers'.checks) < BagCardinality(timers.checks)

\* this step delivers a scroll update to live tooltip triggers
TooltipScrolled ==
    /\ tooltipScrollTriggers > 0
    /\ TooltipProgress(scrollPos') # TooltipProgress(scrollPos)

\* C11 as stated: right after a tooltip progress event at progress p (attach, refresh
\* or scroll update) every timeline head is clamp((p - lo)/(hi - lo), 0, 1) of the
\* timeline for the visibility window [lo, hi] = [0.45, 0.85] of the update rule.
C11_HeadFollowsProgress ==
    [][(TooltipsCreated \/ StateChecked \/ TooltipScrolled) =>
        \A i \in DOMAIN tooltipTimelines' :
            tooltipTimelines'[i].head * (Pct(TooltipTo) - Pct(TooltipFrom))
                = Clamp(TooltipProgress(scrollPos') - Pct(TooltipFrom), 0,
                        Pct(TooltipTo) - Pct(TooltipFrom)) * TimelineDuration]_vars

\* C12 as stated: the head set by initialisation (onRefresh at the attach, and the
\* state check) is 1 exactly when the update rule of the trigger would show the
\* tooltip at the current scroll offset, and 0 otherwise.
C12_InitMatchesUpdateRule ==
    [][((TooltipsCreated \/ StateChecked) /\ scrollPos <= MainEnd) =>
        \A i \in DOMAIN tooltipTimelines' :
            tooltipTimelines'[i].head
                = IF IsInTooltipRange(TooltipProgress(scrollPos), MainEnd)
                  THEN TimelineDuration ELSE 0]_vars

\* the resize event of this step follows the previous one by less than 250 ms
BurstContinues == lastResizeAt # Unset /\ clock - lastResizeAt < DebounceDelay

\* rebuilds that have run or are scheduled
RebuildsDue == rebuilds + Cardinality(timers.rebuilds)

---------------------------------------------------------------------------
(* Properties of the placement and of the windows *)

\* C14 as stated: a resize event that leaves the width as it was, with the model
\* loaded, stores the finalModelPosition that the call before it stored.
C14_FinalPositionNoHistory ==
    [][(model.present /\ RendererCreated /\ resizes' # resizes /\ width' = width)
            => finalModelPosition' = finalModelPosition]_vars

C16_EntranceSpansTwelve ==
    UpdatedWithModel =>
        /\ locals.entranceProgress * Pct(12)
                = Clamp(currentScrollProgress, 0, Pct(12)) * EntranceLen
        /\ currentScrollProgress < Pct(12)
                => CurrentY(currentScrollProgress) < finalModelPosition.y

\* C17 as stated: the container scale is 0.8 up to 15%, 0.8 + 0.2 * (p - 0.15) / 0.10
\* across 15% - 25% and 1.0 from 25% on.
C17_ContainerScale ==
    targets # InitialTargets =>
        targets.modelScale * Pct(10)
            = (8 * Pct(10) + 2 * Clamp(currentScrollProgress - Pct(15), 0, Pct(10)))
                * ModelLen

\* C18 as stated: with the model loaded the rotation follows p * 8 * 2 pi, that is
\* 16 p in units of pi, up to the 0.001 rad the rule lets pass.
C18_EightTurns ==
    UpdatedWithModel =>
        Abs(currentRotation - 2 * 8 * currentScrollProgress) <= RotationEpsilon

\* slideProgress where the handler computes it, 0 before its window and 1 after
EffectiveSlide(progress, slide) ==
    IF slide # Unset THEN slide
    ELSE IF progress < Header2Start THEN 0 ELSE SlideLen

\* C20: an update that does not lower the progress lowers none of the sub-progresses
\* (entrance, container scale, header-1, mask, header-2 slide, header-2 colour),
\* raises neither header offset nor the colour channel, and lowers neither the mask
\* radius, the container scale nor the entrance target.
C20_Monotone ==
    [][(locals # InitialLocals /\ currentScrollProgress' >= currentScrollProgress) =>
        /\ (locals.entranceProgress # Unset /\ locals'.entranceProgress # Unset) =>
                /\ locals.entranceProgress <= locals'.entranceProgress
                /\ yTween <= yTween'
        /\ locals.modelProgress <= locals'.modelProgress
        /\ targets.modelScale <= targets'.modelScale
        /\ locals.headerProgress <= locals'.headerProgress
        /\ targets.header1X >= targets'.header1X
        /\ targets.maskSize <= targets'.maskSize
        /\ EffectiveSlide(currentScrollProgress, locals.slideProgress)
                <= EffectiveSlide(currentScrollProgress', locals'.slideProgress)
        /\ targets.header2X >= targets'.header2X
        /\ locals.colorProgress <= locals'.colorProgress
        /\ targets.header2Color >= targets'.header2Color]_vars

\* C20 witness: an update inside the header-2 slide and colour windows, past the start
\* of the mask window, with the model loaded
C20_Witness ==
    /\ UpdatedWithModel
    /\ currentScrollProgress = Pct(21)
    /\ locals.slideProgress = Pct(3)
    /\ locals.colorProgress = Pct(3)
    /\ targets.maskSize = 100 * Pct(1)
    /\ yTween = finalModelPosition.y

---------------------------------------------------------------------------
(* Properties of the triggers on .product-overview *)

\* progress of the logo trigger at the current scroll offset, over LogoEnd
LogoProgress == TriggerProgress(scrollPos, LogoEnd)

\* C21 as stated: while the logo trigger's progress is in [0.20, 0.28] the channel that
\* onUpdate hands over is round(255 * (1 - (p - 0.20) / 0.08)), an integer in 0..255
\* (white when onEnter of the same event wrote after it).
C21_LogoChannel ==
    logo.transitionProgress # Unset =>
        /\ logo.color \in 0..255
        /\ \/ logo.color = 255
           \/ logo.color = Round(255 * (LogoWindowEnd * LogoEnd - 100 * LogoProgress),
                                 (LogoWindowEnd - LogoWindowStart) * LogoEnd)

\* a scroll distance in tenths of the viewport height
InTenthsOfViewport(distance) == (10 * distance) \div ViewportH

\* C22 as stated: at every scroll offset the logo trigger, the pinned-text trigger, the
\* tooltip triggers and the tooltip state check compute the progress of the main
\* trigger, and the logo's transition runs only inside the mask window.
C22_SameProgress ==
    LET main == TriggerProgress(scrollPos, MainEnd)
    IN  /\ LogoProgress * InTenthsOfViewport(MainEnd) = main * InTenthsOfViewport(LogoEnd)
        /\ TriggerProgress(scrollPos, PinnedTextEnd) * InTenthsOfViewport(MainEnd)
                = main * InTenthsOfViewport(PinnedTextEnd)
        /\ TooltipProgress(scrollPos) = main
        /\ CheckOffset(scrollPos) <= CheckEnd =>
                CheckOffset(scrollPos) * InTenthsOfViewport(MainEnd)
                    = main * InTenthsOfViewport(CheckEnd)
        /\ logo.transitionProgress # Unset => (MaskStart <= main /\ main <= MaskEnd)

\* number of gsap.to(".logo", { color }) calls the logo trigger makes when its progress
\* moves from prev to new: one in onUpdate, one in each of onEnter, onLeave, onLeaveBack
LogoColorWrites(prev, new) ==
    LET callbacks == ToggleCallbacks(prev, new, LogoEnd)
    IN  (IF new # prev THEN 1 ELSE 0)
            + Cardinality({i \in DOMAIN callbacks : callbacks[i] # "onEnterBack"})

\* C23 as stated: in one scroll event the logo colour is assigned at most once by the
\* callbacks of the logo trigger.
C23_SingleWriter ==
    [][scrollPos' # scrollPos =>
            LogoColorWrites(TriggerProgress(scrollPos, LogoEnd),
                            TriggerProgress(scrollPos', LogoEnd)) <= 1]_vars

\* no setTimeout callback is pending
NoTimerPending ==
    /\ timers.setup = Unset
    /\ timers.triggers = EmptyBag
    /\ timers.checks = EmptyBag
    /\ timers.rebuilds = {}

\* C24 as stated, for a scroll that rests: once the triggers are alive and no timer is
\* pending, a timeline that the ticker no longer moves sits at head 1 when the progress
\* is in [0.45, 0.85] and at head 0 otherwise.
C24_RestsWhereWindowSays ==
    (tooltipScrollTriggers > 0 /\ NoTimerPending) =>
        \A i \in DOMAIN tooltipTimelines :
            AdvanceTimeline(tooltipTimelines[i]) = tooltipTimelines[i] =>
                tooltipTimelines[i].head
                    = IF IsInTooltipRange(TooltipProgress(scrollPos), MainEnd)
                      THEN TimelineDuration ELSE 0

---------------------------------------------------------------------------
(* Properties of the model's transform *)

\* this step delivers a progress update to the main handler
MainUpdated ==
    /\ RendererCreated
    /\ TriggerProgress(scrollPos', MainEnd) # TriggerProgress(scrollPos, MainEnd)

\* C26: the tracker is the sum of the angles handed to rotateOnAxis; after an update
\* with the model loaded it is within 0.001 rad of 8 pi p, and an update whose
\* difference is within 0.001 rad turns nothing and leaves the tracker alone.
C26_TrackerInvariant ==
    /\ [](model.rotY = currentRotation)
    /\ [][(MainUpdated /\ model.present) =>
            /\ Abs(currentRotation' - RotationFactor * currentScrollProgress')
                    <= RotationEpsilon
            /\ Abs(RotationFactor * currentScrollProgress' - currentRotation)
                    <= RotationEpsilon
                  => (currentRotation' = currentRotation /\ model'.rotY = model.rotY)]_vars

\* C26 witness: an update was skipped: the tracker, still the sum of the applied
\* angles, is not the target of the progress delivered last
C26_Witness ==
    /\ UpdatedWithModel
    /\ currentRotation # RotationFactor * currentScrollProgress
    /\ currentRotation > 0
    /\ model.rotY = currentRotation

\* C27 as stated: the y that the resize listener writes is the y the scroll handler
\* targets for the same progress, final position and size.
C27_ResizeAgreesWithScroll ==
    [][(resizes' # resizes /\ RendererCreated /\ model.present) =>
            model'.pos.y = EntranceY(finalModelPosition'.y, modelSize.y,
                                     EntranceProgress(currentScrollProgress),
                                     EntranceLen)]_vars

\* the position tween in flight was started before the final position changed
TweenIsStale == yTween # Unset /\ yTween # CurrentY(currentScrollProgress)

\* C28 as stated: a position tween that a resize has made stale does not move the
\* model when it finishes.
C28_StaleTweenHarmless ==
    [][(model.present /\ TweenIsStale /\ yTween' = Unset)
            => model'.pos.y = model.pos.y]_vars

\* C30: a main progress update leaves finalModelPosition, modelSize, the model's
\* position and tilt and the camera alone, and sets currentScrollProgress to the
\* delivered value; with the model absent it changes nothing else of the model state.
C30_UpdateFrame ==
    [][MainUpdated =>
        /\ currentScrollProgress' = TriggerProgress(scrollPos', MainEnd)
        /\ finalModelPosition' = finalModelPosition
        /\ modelSize' = modelSize
        /\ camera' = camera
        /\ model'.present = model.present
        /\ model'.pos = model.pos
        /\ model'.rotZ = model.rotZ
        /\ ~model.present =>
                (model' = model /\ currentRotation' = currentRotation
                    /\ yTween' = yTween)]_vars

\* C30 witness: an update was delivered while the model was absent
C30_Witness ==
    /\ RendererCreated
    /\ ~model.present
    /\ currentScrollProgress = Pct(24)
    /\ currentRotation = 0
    /\ targets.maskSize = 50 * MaskLen

---------------------------------------------------------------------------
(* Properties of the direct-scrub variant *)

---------------------------------------------------------------------------
(* Properties of the tooltip timers on a busy page *)

\* C29 as stated: whatever the resizes and however late the timers run (each no
\* earlier than its deadline, in deadline order), tooltipScrollTriggers never holds
\* more entries than tooltipTimelines, so no timeline has two live triggers.
C29_TriggerPairing == tooltipScrollTriggers <= Len(tooltipTimelines)
====
